---- MODULE Spec2Model ----
(***************************************************************************)
(* Model of the MPEG-2 transport stream demuxer of src/src/main.rs.        *)
(*                                                                         *)
(* A packet is the 188-byte array the demux loop reads; every field is     *)
(* extracted from its bytes exactly as the source does.  A panic (failed   *)
(* assertion, out-of-range index, explicit panic!) ends the run: the model *)
(* moves to status "Fatal" and records in `error` the failure class of the *)
(* check that fired.  The routing table, the handlers and the writers are  *)
(* kept as they were at the moment of the panic.                           *)
(*                                                                         *)
(* Source indices are 0-based; At and Slice translate them.                *)
(***************************************************************************)
EXTENDS Integers, Sequences, FiniteSets, TLC

PACKET_SIZE == 188

\* Bounds of the model: number of packets in the input of each specification.
MaxPackets == 4
MaxLongPackets == 19

At(s, i) == s[i + 1]
\* s[a .. b] of the source (b exclusive)
Slice(s, a, b) == SubSeq(s, a + 1, b)

Ok(v) == [err |-> "none", val |-> v]
Panic(e) == [err |-> e]

----------------------------------------------------------------------------
(* Packet framer *)

get_pid(packet) == (At(packet, 1) % 32) * 256 + At(packet, 2)

\* get_payload_offset without the byte of the adaptation_field_length
\* itself: the offset of control 11 is one short.
get_payload_offset_short(packet) ==
    LET adaptation_field_control == (At(packet, 3) \div 16) % 4
    IN  CASE adaptation_field_control = 1 -> Ok(4)
          [] adaptation_field_control = 2 -> Ok(188)
          [] adaptation_field_control = 3 ->
                LET adaptation_field_length == At(packet, 4)
                IN  IF adaptation_field_length + 5 <= Len(packet)
                      THEN Ok(adaptation_field_length + 4)
                      ELSE Panic("FramingError")
          [] OTHER -> Panic("FramingError")

\* get_payload_offset with control 10 treated like control 01: the
\* adaptation field of a packet without payload is taken for payload.
get_payload_offset_no_skip(packet) ==
    LET adaptation_field_control == (At(packet, 3) \div 16) % 4
    IN  CASE adaptation_field_control = 1 -> Ok(4)
          [] adaptation_field_control = 2 -> Ok(4)
          [] adaptation_field_control = 3 ->
                LET adaptation_field_length == At(packet, 4)
                IN  IF adaptation_field_length + 5 <= Len(packet)
                      THEN Ok(adaptation_field_length + 5)
                      ELSE Panic("FramingError")
          [] OTHER -> Panic("FramingError")

get_payload_offset(packet) ==
    LET adaptation_field_control == (At(packet, 3) \div 16) % 4
    IN  CASE adaptation_field_control = 1 -> Ok(4)
          [] adaptation_field_control = 2 -> Ok(188)
          [] adaptation_field_control = 3 ->
                LET adaptation_field_length == At(packet, 4)
                IN  IF adaptation_field_length + 5 <= Len(packet)
                      THEN Ok(adaptation_field_length + 5)
                      ELSE Panic("FramingError")
          [] OTHER -> Panic("FramingError")

get_pusi(packet) == (At(packet, 1) \div 64) % 2 # 0

get_continuity_counter(packet) == At(packet, 3) % 16

----------------------------------------------------------------------------
(* PES stripper *)

\* get_pes_header_size with the fixed part of the PES header only: the
\* optional fields announced by pes_header_length are not skipped.
get_pes_header_size_fixed(pes) ==
    IF ~(Len(pes) >= 9) THEN Panic("MalformedPes")
    ELSE IF At(pes, 0) # 0 THEN Panic("MalformedPes")
    ELSE Ok(9)

get_pes_header_size(pes) ==
    IF ~(Len(pes) >= 9) THEN Panic("MalformedPes")
    ELSE IF At(pes, 0) # 0 THEN Panic("MalformedPes")
    ELSE LET pes_header_length == At(pes, 8)
         IN  Ok(9 + pes_header_length)

----------------------------------------------------------------------------
(* Handlers.  A routing update is the sequence of insert-if-absent         *)
(* closures composed by the table interpreter, in application order.       *)

no_update == << >>

Program_new(writer) ==
    [kind |-> "Program", continuity_counter |-> 0, writer |-> writer]

\* Program_process with the expected counter advanced without the modulo.
Program_process_nowrap(self, packet) ==
    IF At(packet, 0) # 71 THEN [err |-> "FramingError", self |-> self]
    ELSE IF self.continuity_counter # get_continuity_counter(packet)
      THEN [err |-> "ContinuityError", self |-> self]
    ELSE
      LET counted == [self EXCEPT !.continuity_counter =
                                     self.continuity_counter + 1]
          payload == get_payload_offset(packet)
      IN  IF payload.err # "none" THEN [err |-> payload.err, self |-> counted]
          ELSE
            LET pes == IF get_pusi(packet)
                         THEN get_pes_header_size(
                                  Slice(packet, payload.val, PACKET_SIZE))
                         ELSE Ok(0)
            IN  IF pes.err # "none" THEN [err |-> pes.err, self |-> counted]
                ELSE
                  LET offset == payload.val + pes.val
                  IN  IF offset > PACKET_SIZE
                        THEN [err |-> "IndexOutOfRange", self |-> counted]
                        ELSE [err |-> "none",
                              self |-> [counted EXCEPT !.writer.buf =
                                  @ \o Slice(packet, offset, PACKET_SIZE)],
                              update |-> no_update]

\* Program_process writing everything after the 4-byte packet header: the
\* adaptation field is not skipped.
Program_process_whole(self, packet) ==
    IF At(packet, 0) # 71 THEN [err |-> "FramingError", self |-> self]
    ELSE IF self.continuity_counter # get_continuity_counter(packet)
      THEN [err |-> "ContinuityError", self |-> self]
    ELSE
      LET counted == [self EXCEPT !.continuity_counter =
                                     (self.continuity_counter + 1) % 16]
          payload == get_payload_offset(packet)
      IN  IF payload.err # "none" THEN [err |-> payload.err, self |-> counted]
          ELSE
            LET pes == IF get_pusi(packet)
                         THEN get_pes_header_size(
                                  Slice(packet, payload.val, PACKET_SIZE))
                         ELSE Ok(0)
            IN  IF pes.err # "none" THEN [err |-> pes.err, self |-> counted]
                ELSE
                  LET offset == 4 + pes.val
                  IN  IF offset > PACKET_SIZE
                        THEN [err |-> "IndexOutOfRange", self |-> counted]
                        ELSE [err |-> "none",
                              self |-> [counted EXCEPT !.writer.buf =
                                  @ \o Slice(packet, offset, PACKET_SIZE)],
                              update |-> no_update]

\* Program_process with an offset behind the end of the packet clamped to
\* the end: an oversized PES header yields an empty write, not a panic.
Program_process_clamped(self, packet) ==
    IF At(packet, 0) # 71 THEN [err |-> "FramingError", self |-> self]
    ELSE IF self.continuity_counter # get_continuity_counter(packet)
      THEN [err |-> "ContinuityError", self |-> self]
    ELSE
      LET counted == [self EXCEPT !.continuity_counter =
                                     (self.continuity_counter + 1) % 16]
          payload == get_payload_offset(packet)
      IN  IF payload.err # "none" THEN [err |-> payload.err, self |-> counted]
          ELSE
            LET pes == IF get_pusi(packet)
                         THEN get_pes_header_size(
                                  Slice(packet, payload.val, PACKET_SIZE))
                         ELSE Ok(0)
            IN  IF pes.err # "none" THEN [err |-> pes.err, self |-> counted]
                ELSE
                  LET offset == IF payload.val + pes.val > PACKET_SIZE
                                  THEN PACKET_SIZE
                                  ELSE payload.val + pes.val
                  IN  [err |-> "none",
                       self |-> [counted EXCEPT !.writer.buf =
                                   @ \o Slice(packet, offset, PACKET_SIZE)],
                       update |-> no_update]

\* Result of Program::process: err, the handler as the call leaves it, and
\* the routing update.  A panic after the counter was advanced leaves the
\* advanced counter in the handler.  The writer is a BufWriter of
\* 32 * PACKET_SIZE bytes: write_all only copies into its buffer until the
\* buffer is full, which no run of the sizes explored here reaches, so the
\* write itself does not fail.
Program_process(self, packet) ==
    IF At(packet, 0) # 71 THEN [err |-> "FramingError", self |-> self]
    ELSE IF self.continuity_counter # get_continuity_counter(packet)
      THEN [err |-> "ContinuityError", self |-> self]
    ELSE
      LET counted == [self EXCEPT !.continuity_counter =
                                     (self.continuity_counter + 1) % 16]
          payload == get_payload_offset(packet)
      IN  IF payload.err # "none" THEN [err |-> payload.err, self |-> counted]
          ELSE
            LET pes == IF get_pusi(packet)
                         THEN get_pes_header_size(
                                  Slice(packet, payload.val, PACKET_SIZE))
                         ELSE Ok(0)
            IN  IF pes.err # "none" THEN [err |-> pes.err, self |-> counted]
                ELSE
                  LET offset == payload.val + pes.val
                  IN  IF offset > PACKET_SIZE
                        THEN [err |-> "IndexOutOfRange", self |-> counted]
                        ELSE [err |-> "none",
                              self |-> [counted EXCEPT !.writer.buf =
                                  @ \o Slice(packet, offset, PACKET_SIZE)],
                              update |-> no_update]

----------------------------------------------------------------------------
(* Table interpreters.  Each returns the routing update it composed.       *)

ProgramSpecificInformation(table_processor) ==
    [kind |-> "PSI", table_processor |-> table_processor]

new_pat == ProgramSpecificInformation("program_association_table")

\* programs.entry(program_pid).or_insert_with(PMT parser)
InsertPmt(program_number, program_pid) ==
    [pid |-> program_pid, make |-> "PSI", program_number |-> program_number]

\* programs.entry(es_pid).or_insert_with(Program::new(create_writer(..)))
InsertProgram(es_pid, stream_type) ==
    [pid |-> es_pid, make |-> "Program", stream_type |-> stream_type]

program_association_table(table_data) ==
    IF Len(table_data) # 4 THEN Panic("MalformedTable")
    ELSE
      LET program_number == At(table_data, 0) * 256 + At(table_data, 1)
      IN  IF At(table_data, 2) \div 32 # 7 THEN Panic("MalformedTable")
          ELSE
            LET program_pid == (At(table_data, 2) % 32) * 256
                                 + At(table_data, 3)
            IN  Ok(<<InsertPmt(program_number, program_pid)>>)

\* EsInfoLoop with the closures composed the other way round: the closure
\* of a later record runs before those of the earlier records.
RECURSIVE EsInfoLoop_reversed(_, _)
EsInfoLoop_reversed(es_info_data, add_programs) ==
    IF Len(es_info_data) >= 5
      THEN
        LET stream_type == At(es_info_data, 0)
        IN  IF At(es_info_data, 1) \div 32 # 7 THEN Panic("MalformedTable")
            ELSE
              LET es_pid == (At(es_info_data, 1) % 32) * 256
                              + At(es_info_data, 2)
              IN  IF At(es_info_data, 3) \div 4 # 60
                    THEN Panic("MalformedTable")
                  ELSE
                    LET es_info_length == (At(es_info_data, 3) % 4) * 256
                                            + At(es_info_data, 4)
                    IN  IF ~(5 + es_info_length <= Len(es_info_data))
                          THEN Panic("MalformedTable")
                          ELSE EsInfoLoop_reversed(
                                 Slice(es_info_data, 5 + es_info_length,
                                       Len(es_info_data)),
                                 <<InsertProgram(es_pid, stream_type)>>
                                    \o add_programs)
      ELSE IF Len(es_info_data) # 0 THEN Panic("MalformedTable")
      ELSE Ok(add_programs)

\* EsInfoLoop without the final assert_eq!(es_info_data.len(), 0): bytes
\* left over behind the last whole record are ignored.
RECURSIVE EsInfoLoop_lenient(_, _)
EsInfoLoop_lenient(es_info_data, add_programs) ==
    IF Len(es_info_data) >= 5
      THEN
        LET stream_type == At(es_info_data, 0)
        IN  IF At(es_info_data, 1) \div 32 # 7 THEN Panic("MalformedTable")
            ELSE
              LET es_pid == (At(es_info_data, 1) % 32) * 256
                              + At(es_info_data, 2)
              IN  IF At(es_info_data, 3) \div 4 # 60
                    THEN Panic("MalformedTable")
                  ELSE
                    LET es_info_length == (At(es_info_data, 3) % 4) * 256
                                            + At(es_info_data, 4)
                    IN  IF ~(5 + es_info_length <= Len(es_info_data))
                          THEN Panic("MalformedTable")
                          ELSE EsInfoLoop_lenient(
                                 Slice(es_info_data, 5 + es_info_length,
                                       Len(es_info_data)),
                                 Append(add_programs,
                                        InsertProgram(es_pid, stream_type)))
      ELSE Ok(add_programs)

\* The while loop of program_map_table over the ES records.
RECURSIVE EsInfoLoop(_, _)
EsInfoLoop(es_info_data, add_programs) ==
    IF Len(es_info_data) >= 5
      THEN
        LET stream_type == At(es_info_data, 0)
        IN  IF At(es_info_data, 1) \div 32 # 7 THEN Panic("MalformedTable")
            ELSE
              LET es_pid == (At(es_info_data, 1) % 32) * 256
                              + At(es_info_data, 2)
              IN  IF At(es_info_data, 3) \div 4 # 60
                    THEN Panic("MalformedTable")
                  ELSE
                    LET es_info_length == (At(es_info_data, 3) % 4) * 256
                                            + At(es_info_data, 4)
                    IN  IF ~(5 + es_info_length <= Len(es_info_data))
                          THEN Panic("MalformedTable")
                          ELSE EsInfoLoop(
                                 Slice(es_info_data, 5 + es_info_length,
                                       Len(es_info_data)),
                                 Append(add_programs,
                                        InsertProgram(es_pid, stream_type)))
      ELSE IF Len(es_info_data) # 0 THEN Panic("MalformedTable")
      ELSE Ok(add_programs)

program_map_table(table_data) ==
    IF ~(Len(table_data) > 4) THEN Panic("MalformedTable")
    ELSE IF At(table_data, 0) \div 32 # 7 THEN Panic("MalformedTable")
    ELSE IF At(table_data, 2) \div 4 # 60 THEN Panic("MalformedTable")
    ELSE
      LET program_info_length == (At(table_data, 2) % 4) * 256
                                   + At(table_data, 3)
      IN  IF ~(program_info_length < Len(table_data))
            THEN Panic("MalformedTable")
          ELSE IF 4 + program_info_length > Len(table_data)
            THEN Panic("IndexOutOfRange")
          ELSE EsInfoLoop(Slice(table_data, 4 + program_info_length,
                                Len(table_data)),
                          no_update)

TableProcessor(name, table_data) ==
    IF name = "program_association_table"
      THEN program_association_table(table_data)
      ELSE program_map_table(table_data)

----------------------------------------------------------------------------
(* PSI table parser *)

\* The pointer field and the filler bytes of a unit-start table packet:
\* the offset of the table header.
SkipFiller(packet, offset) ==
    IF ~get_pusi(packet) THEN Ok(offset)
    ELSE IF offset >= PACKET_SIZE THEN Panic("IndexOutOfRange")
    ELSE
      LET pointer_field == At(packet, offset)
      IN  IF offset + 1 + pointer_field > PACKET_SIZE
            THEN Panic("IndexOutOfRange")
          ELSE IF \E i \in (offset + 1) .. (offset + pointer_field) :
                      At(packet, i) # 255
            THEN Panic("MalformedTable")
          ELSE Ok(offset + 1 + pointer_field)

\* The table syntax section: the checks of its first five bytes, the slice
\* of the table data and the call of the embedded interpreter.
TableSyntaxSection(self, table_syntax_section, section_length) ==
    IF section_length < 3 THEN Panic("IndexOutOfRange")
    ELSE IF At(table_syntax_section, 2) \div 64 # 3
      THEN Panic("MalformedTable")
    ELSE IF At(table_syntax_section, 2) % 2 # 1
      THEN Panic("UnsupportedSection")
    ELSE IF section_length < 5 THEN Panic("IndexOutOfRange")
    ELSE IF 5 > section_length - 4 THEN Panic("IndexOutOfRange")
    ELSE TableProcessor(self.table_processor,
                        Slice(table_syntax_section, 5, section_length - 4))

\* ProgramSpecificInformation_process with the continuity check of the
\* stream handlers, against a counter that is never advanced.
ProgramSpecificInformation_process_counted(self, packet) ==
    IF get_continuity_counter(packet) # 0 THEN Panic("ContinuityError")
    ELSE
      LET payload == get_payload_offset(packet)
      IN  IF payload.err # "none" THEN Panic(payload.err)
          ELSE
            LET filler == SkipFiller(packet, payload.val)
            IN  IF filler.err # "none" THEN Panic(filler.err)
                ELSE
                  LET offset == filler.val
                  IN  IF offset + 3 > PACKET_SIZE
                        THEN Panic("IndexOutOfRange")
                      ELSE
                        LET table_header ==
                                Slice(packet, offset, offset + 3)
                            section_length ==
                                (At(table_header, 1) % 16) * 256
                                  + At(table_header, 2)
                        IN  IF At(table_header, 0) = 255
                              THEN Panic("MalformedTable")
                            ELSE IF At(table_header, 1) \div 16 # 11
                              THEN Panic("MalformedTable")
                            ELSE IF ~(section_length < 1021)
                              THEN Panic("MalformedTable")
                            ELSE IF offset + 3 + section_length > PACKET_SIZE
                              THEN Panic("IndexOutOfRange")
                            ELSE TableSyntaxSection(self,
                                   Slice(packet, offset + 3,
                                         offset + 3 + section_length),
                                   section_length)

\* Result of ProgramSpecificInformation::process: err and the update.
ProgramSpecificInformation_process(self, packet) ==
    LET payload == get_payload_offset(packet)
    IN  IF payload.err # "none" THEN Panic(payload.err)
        ELSE
          LET filler == SkipFiller(packet, payload.val)
          IN  IF filler.err # "none" THEN Panic(filler.err)
              ELSE
                LET offset == filler.val
                IN  IF offset + 3 > PACKET_SIZE THEN Panic("IndexOutOfRange")
                    ELSE
                      LET table_header == Slice(packet, offset, offset + 3)
                          section_length ==
                              (At(table_header, 1) % 16) * 256
                                + At(table_header, 2)
                      IN  IF At(table_header, 0) = 255
                            THEN Panic("MalformedTable")
                          ELSE IF At(table_header, 1) \div 16 # 11
                            THEN Panic("MalformedTable")
                          ELSE IF ~(section_length < 1021)
                            THEN Panic("MalformedTable")
                          ELSE IF offset + 3 + section_length > PACKET_SIZE
                            THEN Panic("IndexOutOfRange")
                          ELSE TableSyntaxSection(self,
                                 Slice(packet, offset + 3,
                                       offset + 3 + section_length),
                                 section_length)

----------------------------------------------------------------------------
(* Sink factory and application of a routing update *)

\* The file extension create_writer derives from the stream type.
Extension(stream_type) == IF stream_type = 15 THEN "aac" ELSE "avc"

\* create_writer: panics on an unknown stream type before any file is
\* created; File::create may fail (denied: the ES PIDs whose file the
\* file system refuses to create).  The writer is the BufWriter on the
\* file named after (es_pid, extension); buf is what was written to it.
create_writer(es_pid, stream_type, denied) ==
    IF stream_type \notin {15, 27} THEN Panic("UnknownStreamType")
    ELSE IF es_pid \in denied THEN Panic("IoError")
    ELSE Ok([filename |-> <<es_pid, Extension(stream_type)>>, buf |-> << >>])

\* ApplyInsert with programs.insert in place of entry().or_insert_with():
\* an announced PID gets a fresh table handler even when it is present.
ApplyInsert_replace(st, op, denied) ==
    IF op.make = "PSI"
      THEN [st EXCEPT !.programs =
               [q \in DOMAIN st.programs \cup {op.pid} |->
                   IF q = op.pid
                     THEN ProgramSpecificInformation("program_map_table")
                     ELSE st.programs[q]]]
    ELSE IF op.pid \in DOMAIN st.programs THEN st
    ELSE
      LET writer == create_writer(op.pid, op.stream_type, denied)
      IN  IF writer.err # "none" THEN [st EXCEPT !.err = writer.err]
          ELSE [err |-> "none",
                programs |->
                   [q \in DOMAIN st.programs \cup {op.pid} |->
                       IF q = op.pid THEN Program_new(writer.val)
                                     ELSE st.programs[q]],
                created |-> Append(st.created, writer.val.filename)]

\* ApplyInsert with the sink opened on every announcement of an ES PID: a
\* repeated PMT record creates the file again and starts a fresh handler.
ApplyInsert_reopen(st, op, denied) ==
    IF op.make = "PSI"
      THEN IF op.pid \in DOMAIN st.programs THEN st
           ELSE [st EXCEPT !.programs =
               [q \in DOMAIN st.programs \cup {op.pid} |->
                   IF q = op.pid
                     THEN ProgramSpecificInformation("program_map_table")
                     ELSE st.programs[q]]]
    ELSE IF op.pid \in DOMAIN st.programs
              /\ st.programs[op.pid].kind = "PSI" THEN st
    ELSE
      LET writer == create_writer(op.pid, op.stream_type, denied)
      IN  IF writer.err # "none" THEN [st EXCEPT !.err = writer.err]
          ELSE [err |-> "none",
                programs |->
                   [q \in DOMAIN st.programs \cup {op.pid} |->
                       IF q = op.pid THEN Program_new(writer.val)
                                     ELSE st.programs[q]],
                created |-> Append(st.created, writer.val.filename)]

\* One composed closure: programs.entry(pid).or_insert_with(..).
\* st = [err, programs, created].
ApplyInsert(st, op, denied) ==
    IF op.pid \in DOMAIN st.programs THEN st
    ELSE IF op.make = "PSI"
      THEN [st EXCEPT !.programs =
               [q \in DOMAIN st.programs \cup {op.pid} |->
                   IF q = op.pid
                     THEN ProgramSpecificInformation("program_map_table")
                     ELSE st.programs[q]]]
    ELSE
      LET writer == create_writer(op.pid, op.stream_type, denied)
      IN  IF writer.err # "none" THEN [st EXCEPT !.err = writer.err]
          ELSE [err |-> "none",
                programs |->
                   [q \in DOMAIN st.programs \cup {op.pid} |->
                       IF q = op.pid THEN Program_new(writer.val)
                                     ELSE st.programs[q]],
                created |-> Append(st.created, writer.val.filename)]

\* update_programs(&mut programs): the closures run in composition order;
\* a panic in one of them stops the rest and keeps what the earlier ones did.
RECURSIVE ApplyUpdate(_, _, _)
ApplyUpdate(st, update, denied) ==
    IF update = << >> \/ st.err # "none" THEN st
    ELSE ApplyUpdate(ApplyInsert(st, Head(update), denied),
                     Tail(update), denied)

----------------------------------------------------------------------------
(* Demux loop *)

VARIABLES
    programs,   \* ProgramMap: PID -> handler
    packet,     \* the packet buffer of main
    count,      \* packets fully processed
    status,     \* "Running", "EndOfStream" or "Fatal"
    error,      \* failure class once Fatal
    created,    \* files created by create_writer, in creation order
    consumed,   \* the full packets read from the input so far
    files       \* the output files: file name -> bytes in the file

vars == <<programs, packet, count, status, error, created, consumed, files>>

\* File::create of create_writer: the named files exist and are empty
CreateFiles(fs, names) ==
    [f \in DOMAIN fs \cup names |-> IF f \in names THEN << >> ELSE fs[f]]

\* DropPrograms without the flush: the writers are released as they are.
DropPrograms_none(progs, fs) == fs

\* Drop for Program, for every Program of the map that main owns: the
\* writer is flushed, which appends what it buffered to its file.  The map
\* is dropped when main returns (end of the loop or an error propagated by
\* `?`) and when a panic unwinds main.
DropPrograms(progs, fs) ==
    [f \in DOMAIN fs |->
        IF \E q \in DOMAIN progs : /\ progs[q].kind = "Program"
                                   /\ progs[q].writer.filename = f
          THEN fs[f] \o (CHOOSE buf \in
                           {progs[q].writer.buf : q \in
                              {r \in DOMAIN progs :
                                  /\ progs[r].kind = "Program"
                                  /\ progs[r].writer.filename = f}} : TRUE)
          ELSE fs[f]]

Init ==
    /\ programs = [pid \in {0} |-> new_pat]
    /\ packet = [i \in 1 .. PACKET_SIZE |-> 0]
    /\ count = 0
    /\ status = "Running"
    /\ error = "none"
    /\ created = << >>
    /\ consumed = << >>
    /\ files = [f \in {} |-> << >>]

\* reader.read filled the whole buffer with p
ReadFull(p) ==
    /\ status = "Running"
    /\ packet' = p
    /\ consumed' = Append(consumed, p)

Fail(e) ==
    /\ status' = "Fatal"
    /\ error' = e
    /\ count' = count

Continue ==
    /\ status' = "Running"
    /\ error' = error
    /\ count' = count + 1

\* SyncLoss with the sync byte checked by the handler only: the PID is
\* looked up first and an unregistered PID is reported instead.
SyncLoss_after_lookup(input) ==
    \E p \in input :
        /\ ReadFull(p)
        /\ At(p, 0) # 71
        /\ IF get_pid(p) \in DOMAIN programs THEN Fail("FramingError")
                                              ELSE Fail("UnknownPid")
        /\ UNCHANGED <<programs, created>>
        /\ files' = DropPrograms(programs, files)

\* assert_eq!(packet[0], 0x47) of main fails
SyncLoss(input) ==
    \E p \in input :
        /\ ReadFull(p)
        /\ At(p, 0) # 71
        /\ Fail("FramingError")
        /\ UNCHANGED <<programs, created>>
        /\ files' = DropPrograms(programs, files)

\* UnknownPid with the packet of an unregistered PID dropped instead of
\* ending the run.
UnknownPid_skip(input) ==
    \E p \in input :
        /\ ReadFull(p)
        /\ At(p, 0) = 71
        /\ get_pid(p) \notin DOMAIN programs
        /\ Continue
        /\ UNCHANGED <<programs, created, files>>

\* programs.get_mut(&pid) finds nothing
UnknownPid(input) ==
    \E p \in input :
        /\ ReadFull(p)
        /\ At(p, 0) = 71
        /\ get_pid(p) \notin DOMAIN programs
        /\ Fail("UnknownPid")
        /\ UNCHANGED <<programs, created>>
        /\ files' = DropPrograms(programs, files)

\* StreamPacket with one continuity counter shared by all the streams: an
\* accepted packet advances the expected counter of every Stream Handler.
StreamPacket_shared(input) ==
    \E p \in input :
        /\ ReadFull(p)
        /\ At(p, 0) = 71
        /\ get_pid(p) \in DOMAIN programs
        /\ programs[get_pid(p)].kind = "Program"
        /\ LET r == Program_process(programs[get_pid(p)], p)
           IN  /\ programs' =
                    [q \in DOMAIN programs |->
                        IF q = get_pid(p) THEN r.self
                        ELSE IF programs[q].kind = "Program"
                          THEN [programs[q] EXCEPT !.continuity_counter =
                                   r.self.continuity_counter]
                        ELSE programs[q]]
               /\ IF r.err = "none" THEN Continue ELSE Fail(r.err)
               /\ files' = IF r.err = "none" THEN files
                            ELSE DropPrograms(programs', files)
        /\ UNCHANGED created

\* the handler found is a Program
StreamPacket(input) ==
    \E p \in input :
        /\ ReadFull(p)
        /\ At(p, 0) = 71
        /\ get_pid(p) \in DOMAIN programs
        /\ programs[get_pid(p)].kind = "Program"
        /\ LET r == Program_process(programs[get_pid(p)], p)
           IN  /\ programs' = [programs EXCEPT ![get_pid(p)] = r.self]
               /\ IF r.err = "none" THEN Continue ELSE Fail(r.err)
               /\ files' = IF r.err = "none" THEN files
                            ELSE DropPrograms(programs', files)
        /\ UNCHANGED created

\* TablePacket with the routing update of the handler dropped instead of
\* applied before the next read.
TablePacket_noapply(input) ==
    \E p \in input :
        /\ ReadFull(p)
        /\ At(p, 0) = 71
        /\ get_pid(p) \in DOMAIN programs
        /\ programs[get_pid(p)].kind = "PSI"
        /\ LET r == ProgramSpecificInformation_process(
                        programs[get_pid(p)], p)
           IN  /\ IF r.err # "none" THEN Fail(r.err) ELSE Continue
               /\ files' = IF r.err # "none"
                              THEN DropPrograms(programs, files) ELSE files
        /\ UNCHANGED <<programs, created>>

\* the handler found is a ProgramSpecificInformation
TablePacket(input) ==
    \E p \in input :
        /\ ReadFull(p)
        /\ At(p, 0) = 71
        /\ get_pid(p) \in DOMAIN programs
        /\ programs[get_pid(p)].kind = "PSI"
        /\ LET r == ProgramSpecificInformation_process(
                        programs[get_pid(p)], p)
           IN  IF r.err # "none"
                 THEN /\ Fail(r.err)
                      /\ UNCHANGED <<programs, created>>
                      /\ files' = DropPrograms(programs, files)
                 ELSE \E denied \in SUBSET {op.pid : op \in
                                     {r.val[i] : i \in 1 .. Len(r.val)}} :
                        LET a == ApplyUpdate(
                                   [err |-> "none", programs |-> programs,
                                    created |-> created], r.val, denied)
                        IN  /\ programs' = a.programs
                            /\ created' = a.created
                            /\ IF a.err = "none" THEN Continue
                                                 ELSE Fail(a.err)
                            /\ LET fs == CreateFiles(files,
                                          {a.created[i] : i \in
                                             (Len(created) + 1)
                                               .. Len(a.created)})
                               IN  files' = IF a.err = "none" THEN fs
                                            ELSE DropPrograms(a.programs, fs)

\* EndOfStream with the short read taken for an iteration: the bytes are
\* kept in the buffer and the loop goes on reading.
EndOfStream_continue(short) ==
    \E bytes \in short :
        /\ status = "Running"
        /\ packet' = bytes \o Slice(packet, Len(bytes), PACKET_SIZE)
        /\ status' = IF bytes = << >> THEN "EndOfStream" ELSE "Running"
        /\ UNCHANGED <<programs, count, error, created, consumed>>
        /\ files' = IF bytes = << >> THEN DropPrograms(programs, files)
                                     ELSE files

\* reader.read returned fewer than 188 bytes: they overwrite the head of the
\* buffer and the loop ends
EndOfStream(short) ==
    \E bytes \in short :
        /\ status = "Running"
        /\ packet' = bytes \o Slice(packet, Len(bytes), PACKET_SIZE)
        /\ status' = "EndOfStream"
        /\ UNCHANGED <<programs, count, error, created, consumed>>
        /\ files' = DropPrograms(programs, files)

\* reader.read returned an error, which main propagates
ReadError ==
    /\ status = "Running"
    /\ status' = "Fatal"
    /\ error' = "IoError"
    /\ UNCHANGED <<programs, packet, count, created, consumed>>
    /\ files' = DropPrograms(programs, files)

----------------------------------------------------------------------------
(* Inputs: packets built field by field, in the layout the parsers read.   *)

Pad(bytes, fill) ==
    bytes \o [i \in 1 .. (PACKET_SIZE - Len(bytes)) |-> fill]

\* bytes 0..3 of a transport packet
TsHeader(sync, pid, pusi, afc, cc) ==
    <<sync, pusi * 64 + pid \div 256, pid % 256, afc * 16 + cc>>

RECURSIVE Flatten(_)
Flatten(seqs) ==
    IF seqs = << >> THEN << >> ELSE Head(seqs) \o Flatten(Tail(seqs))

\* table header, table syntax section around table_data, and the CRC bytes
Section(table_id, indicator, table_data) ==
    LET section_length == 5 + Len(table_data) + 4
    IN  <<table_id, 176 + section_length \div 256, section_length % 256,
          0, 1, indicator, 0, 0>> \o table_data \o <<222, 173, 190, 239>>

\* a unit-start table packet: pointer field 0, the section, 0xFF stuffing
TablePacketOf(pid, cc, section) ==
    Pad(TsHeader(71, pid, 1, 1, cc) \o <<0>> \o section, 255)

PatData(program_number, program_pid) ==
    <<program_number \div 256, program_number % 256,
      224 + program_pid \div 256, program_pid % 256>>

\* one ES record <<stream_type, es_pid>> without descriptors
EsRecord(rec) == <<rec[1], 224 + rec[2] \div 256, rec[2] % 256, 240, 0>>

PmtData(pcr_pid, records) ==
    <<224 + pcr_pid \div 256, pcr_pid % 256, 240, 0>>
      \o Flatten([i \in 1 .. Len(records) |-> EsRecord(records[i])])

PatPacket(cc, program_pid) ==
    TablePacketOf(0, cc, Section(0, 193, PatData(1, program_pid)))

PmtPacket(pid, cc, records) ==
    TablePacketOf(pid, cc, Section(2, 193, PmtData(256, records)))

\* A stream packet.  afc is the adaptation-field-control, aflen the
\* adaptation field length byte; with pusi = 1 the payload begins with a PES
\* header whose first byte is pes0 and whose header length byte is L.  The
\* adaptation field is stuffed with 0xFF, the PES header with 0x80 and the
\* elementary payload carries tag + position.
EsPacket(pid, pusi, afc, cc, aflen, pes0, L, tag) ==
    LET o == IF afc \in {2, 3} THEN 5 + aflen ELSE 4
    IN  [i \in 1 .. PACKET_SIZE |->
            LET j == i - 1
            IN  IF j < 4 THEN TsHeader(71, pid, pusi, afc, cc)[i]
                ELSE IF j = 4 /\ afc \in {2, 3} THEN aflen
                ELSE IF j < o THEN 255
                ELSE IF pusi = 1 /\ j = o THEN pes0
                ELSE IF pusi = 1 /\ j = o + 1 THEN 0
                ELSE IF pusi = 1 /\ j = o + 2 THEN 1
                ELSE IF pusi = 1 /\ j = o + 3 THEN 224
                ELSE IF pusi = 1 /\ j = o + 8 THEN L
                ELSE IF pusi = 1 /\ j < o + 9 + L THEN 128
                ELSE (tag + j) % 128]

PmtPid == 32
AudioPid == 68
VideoPid == 69
NullPid == 8191

PatPackets ==
    {PatPacket(0, PmtPid), PatPacket(5, PmtPid), PatPacket(0, 0)}

PmtPackets ==
    {PmtPacket(PmtPid, 0, records) : records \in {
        <<<<15, AudioPid>>>>,
        <<<<15, AudioPid>>, <<27, VideoPid>>>>,
        <<<<15, AudioPid>>, <<2, VideoPid>>>>,
        <<<<2, VideoPid>>, <<15, AudioPid>>>>,
        <<<<27, AudioPid>>, <<15, AudioPid>>>>,
        <<<<2, PmtPid>>>> }}

\* <<pusi, afc, aflen, pes0, L>> of the stream packets
EsShapes ==
    { <<0, 1, 0, 0, 0>>,      \* payload only
      <<0, 3, 180, 0, 0>>,    \* adaptation field, 3 payload bytes
      <<0, 2, 183, 0, 0>>,    \* adaptation field only
      <<1, 1, 0, 0, 5>>,      \* unit start, PES header of 9 + 5 bytes
      <<1, 3, 170, 0, 2>>,    \* unit start after an adaptation field
      <<1, 3, 174, 0, 0>>,    \* unit start, header ends the packet
      <<1, 3, 175, 0, 0>>,    \* unit start, 8 payload bytes
      <<1, 2, 183, 0, 0>>,    \* unit start, adaptation field only
      <<1, 1, 0, 1, 0>>,      \* unit start, payload byte 0 not 0x00
      <<1, 1, 0, 0, 200>>,    \* PES header longer than the packet
      <<0, 0, 0, 0, 0>>,      \* adaptation-field-control 00
      <<0, 3, 184, 0, 0>> }   \* adaptation field longer than the packet

EsPackets ==
    {EsPacket(AudioPid, sh[1], sh[2], cc, sh[3], sh[4], sh[5], 16) :
        sh \in EsShapes, cc \in {0, 1}}
    \cup {EsPacket(AudioPid, 0, 1, cc, 0, 0, 0, 16) : cc \in {2, 15}}
    \cup {EsPacket(VideoPid, 0, 3, cc, 180, 0, 0, 48) : cc \in {0, 1}}

BadPackets ==
    { Pad(TsHeader(72, 0, 1, 1, 0), 255),
      Pad(TsHeader(72, NullPid, 0, 1, 0), 255),
      Pad(TsHeader(71, NullPid, 0, 1, 0), 255),
      \* an audio packet with a payload and a wrong sync byte
      [EsPacket(AudioPid, 0, 1, 0, 0, 0, 0, 16) EXCEPT ![1] = 72] }

\* a table packet with the section_length field of its table header (bytes
\* 6 and 7, behind the pointer field 0) set to section_length
WithSectionLength(p, section_length) ==
    [p EXCEPT ![7] = 176 + section_length \div 256,
              ![8] = section_length % 256]

\* PMT packets at the boundary of the section_length check
LengthPackets ==
    {WithSectionLength(PmtPacket(PmtPid, 0, <<<<15, AudioPid>>>>), sl) :
        sl \in {1020, 1021}}

\* PMT packets by their table data: program descriptors, ES descriptors
\* and records that do not tile the section
PmtDataPackets ==
    {TablePacketOf(PmtPid, 0, Section(2, 193, table_data)) : table_data \in {
        \* two program descriptor bytes, one record with three ES info bytes
        <<225, 0, 240, 2, 9, 9, 15, 224, AudioPid, 240, 3, 7, 7, 7>>,
        \* one program descriptor byte and no record
        <<225, 0, 240, 1, 9>>,
        \* one byte left over behind the record
        <<225, 0, 240, 0, 15, 224, AudioPid, 240, 0, 1>>,
        \* four bytes left over behind the record
        <<225, 0, 240, 0, 15, 224, AudioPid, 240, 0, 27, 224, VideoPid, 240>>,
        \* es_info_length 10 with two bytes left
        <<225, 0, 240, 0, 15, 224, AudioPid, 240, 10, 7, 7>> }}

Packets ==
    PatPackets \cup PmtPackets \cup EsPackets \cup BadPackets
      \cup LengthPackets \cup PmtDataPackets

\* what a short read may leave at the head of the buffer
ShortReads == { << >>, <<71, 0>> }

Input == IF count < MaxPackets THEN Packets ELSE {}

Next ==
    \/ SyncLoss(Input)
    \/ UnknownPid(Input)
    \/ StreamPacket(Input)
    \/ TablePacket(Input)
    \/ EndOfStream(ShortReads)
    \/ ReadError

Spec == Init /\ [][Next]_vars

\* A long run over one program with one audio stream: the PAT, the PMT, then
\* audio packets carrying three payload bytes each, with any continuity
\* counter; at every position the input may also break.
LongPackets ==
    IF count = 0 THEN {PatPacket(0, PmtPid)}
    ELSE IF count = 1 THEN {PmtPacket(PmtPid, 0, <<<<15, AudioPid>>>>)}
    ELSE {EsPacket(AudioPid, 0, 3, cc, 180, 0, 0, 16) : cc \in 0 .. 15}

InputLong ==
    IF count < MaxLongPackets THEN LongPackets \cup BadPackets ELSE {}

NextLong ==
    \/ SyncLoss(InputLong)
    \/ UnknownPid(InputLong)
    \/ StreamPacket(InputLong)
    \/ TablePacket(InputLong)
    \/ EndOfStream(ShortReads)
    \/ ReadError

SpecLong == Init /\ [][NextLong]_vars

\* The loop of main is sequential code: as long as the run is Running the
\* next read happens.
LiveSpec == Spec /\ WF_vars(Next)

----------------------------------------------------------------------------
(* Vocabulary of the properties *)

\* this step read a full packet with a valid sync byte
FullPacketStep ==
    /\ status = "Running"
    /\ consumed' = Append(consumed, packet')
    /\ At(packet', 0) = 71

\* this step dispatched the packet to a handler of the given kind
DeliveredTo(kind) ==
    /\ FullPacketStep
    /\ get_pid(packet') \in DOMAIN programs
    /\ programs[get_pid(packet')].kind = kind

\* this step dispatched the packet to a table handler with that interpreter
DeliveredToTable(table_processor) ==
    /\ DeliveredTo("PSI")
    /\ programs[get_pid(packet')].table_processor = table_processor

\* the routing update a table packet yields at the handler h
UpdateOf(h, p) == ProgramSpecificInformation_process(h, p)

Ops(update) == {update[i] : i \in 1 .. Len(update)}

StreamPids == {q \in DOMAIN programs : programs[q].kind = "Program"}

\* packets of PID q among the first n consumed ones
PacketsOf(q, n) == {i \in 1 .. n : get_pid(consumed[i]) = q}

----------------------------------------------------------------------------
(* C1 *)

\* the handler h2 is the handler h, possibly with its stream state advanced
SameHandler(h, h2) ==
    /\ h2.kind = h.kind
    /\ h.kind = "PSI" => h2 = h
    /\ h.kind = "Program" => h2.writer.filename = h.writer.filename

\* C1: the Routing Table starts as exactly {0 -> PAT Table Handler}, and in
\* every step every PID that is present stays present with the same handler
\* (same kind, same interpreter, same sink), whatever PAT or PMT is applied.
C1_RoutingTableOnlyGrows ==
    /\ DOMAIN programs = {0}
    /\ programs[0] = new_pat
    /\ [][\A q \in DOMAIN programs :
             /\ q \in DOMAIN programs'
             /\ SameHandler(programs[q], programs'[q])]_vars

\* a PAT announcing PID 0 and a PMT announcing the PMT PID as an ES PID were
\* both applied, and the table grew by the PMT handler only
C1_Witness ==
    /\ status = "Running"
    /\ count = 3
    /\ consumed[1] = PatPacket(0, 0)
    /\ consumed[2] = PatPacket(0, PmtPid)
    /\ consumed[3] = PmtPacket(PmtPid, 0, <<<<2, PmtPid>>>>)
    /\ DOMAIN programs = {0, PmtPid}

----------------------------------------------------------------------------
(* C2 *)

\* C2: the packet delivered to a Stream Handler as its packet number k
\* (k packets of that PID were delivered before it) passes the continuity
\* check, which advances the expected counter to (k + 1) mod 16, if and only
\* if its continuity counter is k mod 16; otherwise the run fails with
\* ContinuityError and the expected counter is left alone.  The expected
\* counter is always in 0..15.
C2_ContinuitySequence ==
    /\ [](\A q \in StreamPids : programs[q].continuity_counter \in 0 .. 15)
    /\ [][DeliveredTo("Program") =>
            LET q == get_pid(packet')
                k == Cardinality(PacketsOf(q, Len(consumed)))
            IN  IF get_continuity_counter(packet') = k % 16
                  THEN /\ error' # "ContinuityError"
                       /\ programs'[q].continuity_counter = (k + 1) % 16
                  ELSE /\ status' = "Fatal"
                       /\ error' = "ContinuityError"
                       /\ programs'[q].continuity_counter = k % 16
                       /\ programs' = programs]_vars

\* the audio handler accepted 17 packets: the counter wrapped from 15 to 0
\* and went on to 1
C2_Witness ==
    /\ status = "Running"
    /\ AudioPid \in DOMAIN programs
    /\ Cardinality(PacketsOf(AudioPid, Len(consumed))) = 17
    /\ get_continuity_counter(packet) = 0
    /\ programs[AudioPid].continuity_counter = 1

----------------------------------------------------------------------------
(* C3 *)

\* C3: a full packet with a valid sync byte whose PID is not a key of the
\* Routing Table moves the run to Fatal (UnknownPid) and changes neither the
\* Routing Table nor any handler, counter or sink, nor the files created.
C3_UnknownPidIsFatal ==
    [][(FullPacketStep /\ get_pid(packet') \notin DOMAIN programs) =>
          /\ status' = "Fatal"
          /\ error' = "UnknownPid"
          /\ programs' = programs
          /\ created' = created
          /\ count' = count]_vars

\* a packet of the audio PID arrived after the PAT but before any PMT
\* declared it
C3_Witness ==
    /\ status = "Fatal"
    /\ error = "UnknownPid"
    /\ get_pid(packet) = AudioPid
    /\ DOMAIN programs = {0, PmtPid}

----------------------------------------------------------------------------
(* C4 *)

\* the PIDs announced by the table packet consumed as number i, as read by
\* the handler that is registered for its PID
AnnouncedBy(i) ==
    LET p == consumed[i]
        u == UpdateOf(programs[get_pid(p)], p)
    IN  IF programs[get_pid(p)].kind = "PSI" /\ u.err = "none"
          THEN {op.pid : op \in Ops(u.val)}
          ELSE {}

\* C4: the Routing Update of packet n is applied before packet n+1 is looked
\* up.  A PAT section announcing an absent program_pid P leaves a
\* PMT-flavored Table Handler at P, a PMT that the run survives leaves every
\* ES PID it declares registered, and a packet never fails with UnknownPid
\* on a PID that the packet right before it announced.
C4_UpdateAppliedBeforeNextLookup ==
    /\ [][DeliveredToTable("program_association_table") =>
            LET u == UpdateOf(programs[get_pid(packet')], packet')
            IN  u.err = "none" =>
                  \A op \in Ops(u.val) :
                     op.pid \notin DOMAIN programs =>
                        /\ status' = "Running"
                        /\ op.pid \in DOMAIN programs'
                        /\ programs'[op.pid] =
                             ProgramSpecificInformation("program_map_table")
         ]_vars
    /\ [][(DeliveredToTable("program_map_table") /\ status' = "Running") =>
            LET u == UpdateOf(programs[get_pid(packet')], packet')
            IN  \A op \in Ops(u.val) : op.pid \in DOMAIN programs'
         ]_vars
    /\ []((status = "Fatal" /\ error = "UnknownPid" /\ Len(consumed) >= 2)
            => get_pid(packet) \notin AnnouncedBy(Len(consumed) - 1))

\* the PAT was packet 1, the PMT of the PID it announced was dispatched as
\* packet 2, and a packet of the ES PID that PMT announced as packet 3
C4_Witness ==
    /\ status = "Running"
    /\ count = 3
    /\ consumed[1] = PatPacket(0, PmtPid)
    /\ get_pid(consumed[2]) = PmtPid
    /\ get_pid(consumed[3]) = AudioPid
    /\ AudioPid \in AnnouncedBy(2)
    /\ programs[AudioPid].continuity_counter = 1

----------------------------------------------------------------------------
(* C5 *)

\* C5: a PAT or PMT packet that was already processed earlier in the run and
\* is fed again leaves the Routing Table with every handler, continuity
\* counter and sink content exactly as it was and creates no file; and in
\* the whole run no ES PID has its file created twice.
C5_RetransmissionIsIdempotent ==
    /\ [][(DeliveredTo("PSI")
             /\ \E i \in 1 .. Len(consumed) : consumed[i] = packet') =>
            /\ programs' = programs
            /\ created' = created]_vars
    /\ [](\A i, j \in 1 .. Len(created) :
             created[i][1] = created[j][1] => i = j)

\* the PMT was fed as packet 2 and again as packet 4, after the audio sink
\* had received bytes
C5_Witness ==
    /\ status = "Running"
    /\ count = 4
    /\ get_pid(consumed[2]) = PmtPid
    /\ consumed[4] = consumed[2]
    /\ get_pid(consumed[3]) = AudioPid
    /\ programs[AudioPid].writer.buf # << >>
    /\ programs[AudioPid].continuity_counter = 1
    /\ Len(created) = 2

----------------------------------------------------------------------------
(* C6 *)

\* The ES records <<stream type, ES PID>> that the bytes a .. b-1 of the
\* packet declare, in declaration order, by the layout of the PMT section.
RECURSIVE RecordsFrom(_, _, _)
RecordsFrom(p, a, b) ==
    IF a + 5 > b THEN << >>
    ELSE <<[stream_type |-> At(p, a),
            pid |-> (At(p, a + 1) % 32) * 256 + At(p, a + 2)]>>
         \o RecordsFrom(p, a + 5 + (At(p, a + 3) % 4) * 256 + At(p, a + 4), b)

\* The records of a well-formed PMT packet: the table header follows the
\* adaptation field, the pointer field and the filler; the records follow
\* the 5 bytes of the syntax section, the 4 bytes of PCR PID and
\* program_info_length and the program descriptors, and end before the CRC.
DeclaredRecords(p) ==
    LET afc == (At(p, 3) \div 16) % 4
        payload == IF afc = 3 THEN 5 + At(p, 4) ELSE 4
        header == IF get_pusi(p) THEN payload + 1 + At(p, payload)
                                 ELSE payload
        section_length == (At(p, header + 1) % 16) * 256 + At(p, header + 2)
        data == header + 3 + 5
        program_info_length == (At(p, data + 2) % 4) * 256 + At(p, data + 3)
    IN  RecordsFrom(p, data + 4 + program_info_length,
                    header + 3 + section_length - 4)

\* the stream type of the first of the records that declares pid
RECURSIVE FirstType(_, _)
FirstType(records, pid) ==
    IF Head(records).pid = pid THEN Head(records).stream_type
    ELSE FirstType(Tail(records), pid)

\* C6: after a PMT section that the run survives, every ES record with an
\* absent ES PID and stream type 0x0F or 0x1B has a Stream Handler at its
\* ES PID with expected counter 0 and an empty sink created by the factory
\* for (ES PID, stream type of the first record declaring that PID).
C6_PmtRegistersStreams ==
    [][(DeliveredToTable("program_map_table") /\ status' = "Running") =>
          LET records == DeclaredRecords(packet')
          IN  \A rec \in Ops(records) :
                 (rec.pid \notin DOMAIN programs
                    /\ rec.stream_type \in {15, 27})
                 => LET filename ==
                          <<rec.pid, Extension(FirstType(records, rec.pid))>>
                    IN  /\ rec.pid \in DOMAIN programs'
                        /\ programs'[rec.pid] =
                             [kind |-> "Program", continuity_counter |-> 0,
                              writer |-> [filename |-> filename,
                                          buf |-> << >>]]
                        /\ \E i \in 1 .. Len(created') :
                              /\ i > Len(created)
                              /\ created'[i] = filename]_vars

\* a PMT declaring the audio PID twice, first as 0x1B and then as 0x0F, was
\* processed: the handler writes to the file of the first record
C6_Witness ==
    /\ status = "Running"
    /\ count = 2
    /\ packet = PmtPacket(PmtPid, 0, <<<<27, AudioPid>>, <<15, AudioPid>>>>)
    /\ programs[AudioPid].writer.filename = <<AudioPid, "avc">>
    /\ created = <<<<AudioPid, "avc">>>>

----------------------------------------------------------------------------
(* C7 *)

\* the files created in this step
NewlyCreated == {created'[i] : i \in (Len(created) + 1) .. Len(created')}

\* C7: whatever the Routing Table contains, a PMT section holding an ES
\* record whose stream type is neither 0x0F nor 0x1B ends the run in Fatal
\* with UnknownStreamType, and no sink is created for that record.  (A
\* failure to create the file of an earlier record, an I/O error, is not
\* held against the statement.)
C7_UnknownStreamTypeIsFatal ==
    [][(DeliveredToTable("program_map_table")
          /\ UpdateOf(programs[get_pid(packet')], packet').err = "none") =>
          \A rec \in Ops(DeclaredRecords(packet')) :
             rec.stream_type \notin {15, 27} =>
                /\ status' = "Fatal"
                /\ error' \in {"UnknownStreamType", "IoError"}
                /\ \A f \in NewlyCreated : f[1] # rec.pid]_vars

----------------------------------------------------------------------------
(* C8 *)

\* C8: the Routing Update of one PMT section is all or nothing: after the
\* PMT packet was dispatched, in Running as in Fatal, either every absent
\* ES PID the section declares is registered, or none of them is and no
\* file was created.
C8_PmtUpdateIsAtomic ==
    [][(DeliveredToTable("program_map_table")
          /\ UpdateOf(programs[get_pid(packet')], packet').err = "none") =>
          LET absent == {rec.pid : rec \in Ops(DeclaredRecords(packet'))}
                           \ DOMAIN programs
          IN  \/ absent \subseteq DOMAIN programs'
              \/ /\ absent \cap DOMAIN programs' = {}
                 /\ created' = created]_vars

----------------------------------------------------------------------------
(* C9 *)

\* the payload offset of a packet by its adaptation-field-control
PayloadOffset(p) ==
    LET afc == (At(p, 3) \div 16) % 4
    IN  IF afc = 1 THEN 4 ELSE IF afc = 2 THEN 188 ELSE 5 + At(p, 4)

\* C9: a unit-start packet delivered to a Stream Handler with the expected
\* continuity counter, with payload offset o, payload byte o equal to 0x00
\* and PES header length L such that o + 9 + L <= 188, is accepted and
\* appends exactly packet[o+9+L .. 188] to the sink.
C9_PesHeaderStripped ==
    [][(/\ DeliveredTo("Program")
        /\ get_pusi(packet')
        /\ programs[get_pid(packet')].continuity_counter
              = get_continuity_counter(packet')
        /\ (At(packet', 3) \div 16) % 4 \in {1, 2, 3}
        /\ PayloadOffset(packet') + 9 <= PACKET_SIZE
        /\ At(packet', PayloadOffset(packet')) = 0
        /\ PayloadOffset(packet') + 9
              + At(packet', PayloadOffset(packet') + 8) <= PACKET_SIZE)
       => LET q == get_pid(packet')
              o == PayloadOffset(packet')
              L == At(packet', o + 8)
          IN  /\ status' = "Running"
              /\ programs'[q].writer.buf =
                   programs[q].writer.buf
                      \o Slice(packet', o + 9 + L, PACKET_SIZE)]_vars

\* a unit-start packet with an adaptation field and a PES header of 9 + 2
\* bytes was accepted after the sink already held bytes: its last two bytes
\* ended up in the sink
C9_Witness ==
    /\ status = "Running"
    /\ count = 4
    /\ packet = EsPacket(AudioPid, 1, 3, 1, 170, 0, 2, 16)
    /\ Len(programs[AudioPid].writer.buf) > 2
    /\ Slice(programs[AudioPid].writer.buf,
             Len(programs[AudioPid].writer.buf) - 2,
             Len(programs[AudioPid].writer.buf)) = Slice(packet, 186, 188)

----------------------------------------------------------------------------
(* C10 *)

\* the payload slice of an accepted stream packet: what follows the
\* adaptation field and, on a unit-start packet, the PES header
PayloadSlice(p) ==
    LET o == PayloadOffset(p)
    IN  Slice(p, IF get_pusi(p) THEN o + 9 + At(p, o + 8) ELSE o,
              PACKET_SIZE)

\* the payload slices of the packets of PID q among the first n consumed
\* packets, concatenated in arrival order
RECURSIVE Payloads(_, _)
Payloads(q, n) ==
    IF n = 0 THEN << >>
    ELSE Payloads(q, n - 1)
           \o (IF get_pid(consumed[n]) = q THEN PayloadSlice(consumed[n])
                                           ELSE << >>)

\* C10: at every point of the run the content of the sink of every stream
\* PID is the concatenation, in arrival order, of the payload slices of the
\* packets of that PID among the packets accepted so far (the first `count`
\* packets of the input).
C10_SinkIsConcatenationOfPayloads ==
    \A q \in StreamPids : programs[q].writer.buf = Payloads(q, count)

\* an audio packet and then a video packet were accepted after the tables:
\* each sink holds the payload slice of the packet of its own PID only
C10_Witness ==
    /\ status = "Running"
    /\ count = 4
    /\ get_pid(consumed[3]) = AudioPid
    /\ get_pid(consumed[4]) = VideoPid
    /\ programs[AudioPid].writer.buf = PayloadSlice(consumed[3])
    /\ programs[VideoPid].writer.buf = PayloadSlice(consumed[4])
    /\ Len(PayloadSlice(consumed[3])) > 0
    /\ Len(PayloadSlice(consumed[4])) > 0

----------------------------------------------------------------------------
(* C11 *)

\* the offset of the table header of a table packet: behind the adaptation
\* field and, in a unit-start packet, the pointer field and the filler
HeaderOffset(p) ==
    IF get_pusi(p) THEN PayloadOffset(p) + 1 + At(p, PayloadOffset(p))
                   ELSE PayloadOffset(p)

\* the 12-bit section_length of the table header
SectionLengthOf(p) ==
    (At(p, HeaderOffset(p) + 1) % 16) * 256 + At(p, HeaderOffset(p) + 2)

\* the table header and the first bytes of the table syntax section are
\* well formed: table id, syntax indicator and reserved bits, current
\* indicator
HeaderFieldsWellFormed(p) ==
    /\ (At(p, 3) \div 16) % 4 = 1
    /\ HeaderOffset(p) + 8 <= PACKET_SIZE
    /\ At(p, HeaderOffset(p)) # 255
    /\ At(p, HeaderOffset(p) + 1) \div 16 = 11
    /\ At(p, HeaderOffset(p) + 5) \div 64 = 3
    /\ At(p, HeaderOffset(p) + 5) % 2 = 1

\* C11: a Table Handler accepts a section whose section_length is 1020, the
\* other fields being well formed, and rejects one whose section_length is
\* 1021 with MalformedTable.
C11_SectionLengthBoundary ==
    [][(DeliveredTo("PSI") /\ HeaderFieldsWellFormed(packet')) =>
          /\ SectionLengthOf(packet') = 1020 => status' = "Running"
          /\ SectionLengthOf(packet') = 1021 =>
                (status' = "Fatal" /\ error' = "MalformedTable")]_vars

----------------------------------------------------------------------------
(* C12 *)

\* values of byte 4 around the limits of the adaptation field length
AdaptationLengths == {0, 1, 100, 182, 183, 184, 255}

\* the packet with its adaptation-field-control and byte 4 replaced
WithAdaptation(p, afc, b) ==
    [p EXCEPT ![4] = (p[4] \div 64) * 64 + afc * 16 + (p[4] % 16),
              ![5] = b]

\* C12: for the packet in the buffer with any adaptation-field-control and
\* any byte 4, the payload offset is 4 for control 01, 188 for control 10 and
\* 5 + byte 4 for control 11 when that is at most 188; control 00 and
\* control 11 with 5 + byte 4 > 188 fail; a returned offset is in 4..188.
C12_PayloadOffsetFormula ==
    \A afc \in 0 .. 3, b \in AdaptationLengths :
        LET r == get_payload_offset(WithAdaptation(packet, afc, b))
        IN  /\ afc = 1 => r = Ok(4)
            /\ afc = 2 => r = Ok(188)
            /\ (afc = 3 /\ 5 + b <= 188) => r = Ok(5 + b)
            /\ (afc = 0 \/ (afc = 3 /\ 5 + b > 188)) => r.err # "none"
            /\ r.err = "none" => r.val \in 4 .. 188

\* a stream packet with control 11 and an adaptation field of 180 bytes was
\* accepted: its three payload bytes, from offset 185, are the sink
C12_Witness ==
    /\ status = "Running"
    /\ count = 3
    /\ get_pid(packet) = AudioPid
    /\ (At(packet, 3) \div 16) % 4 = 3
    /\ At(packet, 4) = 180
    /\ get_payload_offset(packet) = Ok(185)
    /\ programs[AudioPid].writer.buf = Slice(packet, 185, PACKET_SIZE)

----------------------------------------------------------------------------
(* C13 *)

\* C13: once the run is in a terminal state, EndOfStream or Fatal, every
\* file that was created exists and holds everything that was written to the
\* writer of its Stream Handler: all the payload accepted before the
\* terminal state.
C13_SinksFlushedAtExit ==
    status \in {"EndOfStream", "Fatal"} =>
        /\ \A i \in 1 .. Len(created) : created[i] \in DOMAIN files
        /\ \A q \in StreamPids :
              /\ programs[q].writer.filename \in DOMAIN files
              /\ files[programs[q].writer.filename] = programs[q].writer.buf
              /\ files[programs[q].writer.filename] = Payloads(q, count)

\* the run failed on a continuity error after the audio sink had accepted a
\* packet: the bytes of that packet are in the file
C13_Witness ==
    /\ status = "Fatal"
    /\ error = "ContinuityError"
    /\ count = 3
    /\ get_pid(consumed[3]) = AudioPid
    /\ files[<<AudioPid, "aac">>] = PayloadSlice(consumed[3])
    /\ Len(files[<<AudioPid, "aac">>]) > 0

----------------------------------------------------------------------------
(* C14 *)

Terminal == status \in {"EndOfStream", "Fatal"}

\* C14: the run eventually reaches a terminal state and nothing happens
\* after it; an iteration that leaves the run Running consumed exactly one
\* full packet; the run reaches EndOfStream by a short read (no bytes or a
\* partial packet, which is dropped without an error) when every packet
\* consumed before was processed, and Fatal at the first packet that fails.
C14_RunTerminates ==
    /\ <>Terminal
    /\ [][Terminal => UNCHANGED vars]_vars
    /\ [][(status = "Running" /\ status' = "Running") =>
            /\ consumed' = Append(consumed, packet')
            /\ Len(packet') = PACKET_SIZE
            /\ count' = count + 1
            /\ count' = Len(consumed')]_vars
    /\ [][(status = "Running" /\ status' = "EndOfStream") =>
            /\ count = Len(consumed)
            /\ UNCHANGED <<programs, count, error, created, consumed>>
            /\ error' = "none"]_vars
    /\ [][(status = "Running" /\ status' = "Fatal") =>
            /\ count = Len(consumed)
            /\ count' = count
            /\ Len(consumed') \in {count, count + 1}
            /\ error' # "none"]_vars

\* the input ended in a partial packet after three full packets: its bytes
\* are in the head of the buffer and the run ended in EndOfStream
C14_Witness ==
    /\ status = "EndOfStream"
    /\ count = 3
    /\ Len(consumed) = 3
    /\ error = "none"
    /\ packet # consumed[3]
    /\ Slice(packet, 0, 2) = <<71, 0>>

----------------------------------------------------------------------------
(* C15 *)

\* the offset of the PMT table data: behind the table header and the five
\* bytes of the table syntax section
PmtDataOffset(p) == HeaderOffset(p) + 3 + 5

ProgramInfoLength(p) ==
    (At(p, PmtDataOffset(p) + 2) % 4) * 256 + At(p, PmtDataOffset(p) + 3)

\* where the ES records begin and where they end (before the CRC)
EsInfoStart(p) == PmtDataOffset(p) + 4 + ProgramInfoLength(p)
EsInfoEnd(p) == HeaderOffset(p) + 3 + SectionLengthOf(p) - 4

\* the section lies in the packet and everything before the ES records is
\* well formed
PmtHeaderWellFormed(p) ==
    /\ HeaderFieldsWellFormed(p)
    /\ SectionLengthOf(p) >= 5 + 5 + 4
    /\ HeaderOffset(p) + 3 + SectionLengthOf(p) <= PACKET_SIZE
    /\ At(p, PmtDataOffset(p)) \div 32 = 7
    /\ At(p, PmtDataOffset(p) + 2) \div 4 = 60
    /\ EsInfoStart(p) <= EsInfoEnd(p)

\* records of 5 + es_info_length bytes each cover the bytes a .. b-1 exactly
RECURSIVE Tiles(_, _, _)
Tiles(p, a, b) ==
    IF a = b THEN TRUE
    ELSE IF b - a < 5 THEN FALSE
    ELSE LET es_info_length == (At(p, a + 3) % 4) * 256 + At(p, a + 4)
         IN  /\ 5 + es_info_length <= b - a
             /\ Tiles(p, a + 5 + es_info_length, b)

\* C15: a PMT section is accepted only when records of 5 + es_info_length
\* bytes tile what follows the program descriptors, and then every record
\* so delimited is registered; a section that ends in a partial record
\* fails with MalformedTable and registers no handler.
C15_RecordsTileThePayload ==
    [][(DeliveredToTable("program_map_table")
          /\ PmtHeaderWellFormed(packet')) =>
          LET tiled == Tiles(packet', EsInfoStart(packet'),
                             EsInfoEnd(packet'))
          IN  /\ status' = "Running" =>
                   /\ tiled
                   /\ \A rec \in Ops(DeclaredRecords(packet')) :
                         rec.pid \in DOMAIN programs'
              /\ ~tiled =>
                   /\ status' = "Fatal"
                   /\ error' = "MalformedTable"
                   /\ programs' = programs
                   /\ created' = created]_vars

\* a PMT whose second record is cut after four bytes ended the run, and the
\* audio PID of its first record is not registered
C15_Witness ==
    /\ status = "Fatal"
    /\ error = "MalformedTable"
    /\ count = 1
    /\ get_pid(packet) = PmtPid
    /\ PmtHeaderWellFormed(packet)
    /\ EsInfoEnd(packet) - EsInfoStart(packet) = 9
    /\ DOMAIN programs = {0, PmtPid}
    /\ created = << >>

----------------------------------------------------------------------------
(* C16 *)

\* C16: a full packet whose byte 0 is not 0x47 moves the run to Fatal
\* (FramingError) whether its PID is registered or not, and changes neither
\* the Routing Table nor any continuity counter or sink.
C16_SyncLossIsFramingError ==
    [][(status = "Running" /\ consumed' = Append(consumed, packet')
          /\ At(packet', 0) # 71) =>
          /\ status' = "Fatal"
          /\ error' = "FramingError"
          /\ programs' = programs
          /\ created' = created
          /\ count' = count]_vars

\* a packet of an unregistered PID with a wrong sync byte ended the run
\* after the audio stream had been registered and had received a packet
C16_Witness ==
    /\ status = "Fatal"
    /\ error = "FramingError"
    /\ count = 3
    /\ At(packet, 0) = 72
    /\ get_pid(packet) = NullPid
    /\ NullPid \notin DOMAIN programs
    /\ AudioPid \in DOMAIN programs
    /\ programs[AudioPid].continuity_counter = 1

----------------------------------------------------------------------------
(* C17 *)

\* C17: a packet dispatched to the Stream Handler of PID p leaves the key
\* set of the Routing Table, every other handler (counter and sink
\* included), the kind and the file of p's own handler and the files
\* created as they were.
C17_StreamPacketTouchesOwnHandlerOnly ==
    [][DeliveredTo("Program") =>
          /\ DOMAIN programs' = DOMAIN programs
          /\ \A q \in DOMAIN programs \ {get_pid(packet')} :
                programs'[q] = programs[q]
          /\ SameHandler(programs[get_pid(packet')],
                         programs'[get_pid(packet')])
          /\ created' = created]_vars

\* with audio and video registered, an audio packet was accepted after a
\* video packet: the video handler still expects counter 1 and holds the
\* bytes of its own packet
C17_Witness ==
    /\ status = "Running"
    /\ count = 4
    /\ get_pid(consumed[3]) = VideoPid
    /\ get_pid(consumed[4]) = AudioPid
    /\ programs[VideoPid].continuity_counter = 1
    /\ programs[VideoPid].writer.buf = PayloadSlice(consumed[3])
    /\ programs[AudioPid].continuity_counter = 1
    /\ Len(programs[AudioPid].writer.buf) > 0

----------------------------------------------------------------------------
(* C18 *)

\* the packet with its continuity counter replaced
WithCounter(p, cc) == [p EXCEPT ![4] = (p[4] \div 16) * 16 + cc]

\* C18: a packet dispatched to a Table Handler never fails with
\* ContinuityError, its outcome (failure or routing update) is the same for
\* every value of its continuity counter, the Table Handler itself is left
\* as it was, and no Stream Handler's counter or sink changes.
C18_TablesIgnoreContinuity ==
    [][DeliveredTo("PSI") =>
          LET h == programs[get_pid(packet')]
          IN  /\ error' # "ContinuityError"
              /\ \A cc \in 0 .. 15 :
                    UpdateOf(h, WithCounter(packet', cc))
                       = UpdateOf(h, packet')
              /\ programs'[get_pid(packet')] = h
              /\ \A q \in StreamPids : programs'[q] = programs[q]]_vars

\* four PAT packets with counters 0, 5, 0, 0 (a skip, a reset and a repeat)
\* were all accepted
C18_Witness ==
    /\ status = "Running"
    /\ count = 4
    /\ consumed = <<PatPacket(0, PmtPid), PatPacket(5, PmtPid),
                    PatPacket(0, PmtPid), PatPacket(0, PmtPid)>>

----------------------------------------------------------------------------
(* C19 *)

\* C19: an adaptation-field-only packet (control 10) without unit start,
\* delivered to a Stream Handler with the expected continuity counter, is
\* accepted: nothing is written, the expected counter advances by 1 modulo
\* 16 and the run stays Running.
C19_AdaptationOnlyPacketAccepted ==
    [][(/\ DeliveredTo("Program")
        /\ (At(packet', 3) \div 16) % 4 = 2
        /\ ~get_pusi(packet')
        /\ programs[get_pid(packet')].continuity_counter
              = get_continuity_counter(packet'))
       => LET q == get_pid(packet')
          IN  /\ status' = "Running"
              /\ count' = count + 1
              /\ programs'[q].writer.buf = programs[q].writer.buf
              /\ programs'[q].continuity_counter =
                   (programs[q].continuity_counter + 1) % 16]_vars

\* an adaptation-field-only packet was accepted behind a packet with
\* payload: the sink still holds the payload of the first packet only
C19_Witness ==
    /\ status = "Running"
    /\ count = 4
    /\ get_pid(consumed[3]) = AudioPid
    /\ get_pid(packet) = AudioPid
    /\ (At(packet, 3) \div 16) % 4 = 2
    /\ ~get_pusi(packet)
    /\ programs[AudioPid].continuity_counter = 2
    /\ programs[AudioPid].writer.buf = PayloadSlice(consumed[3])
    /\ Len(programs[AudioPid].writer.buf) > 0

----------------------------------------------------------------------------
(* C20 *)

\* a unit-start packet with a payload offset whose PES header cannot be
\* stripped inside the packet: fewer than 9 payload bytes, a first payload
\* byte other than 0x00, or a header that ends behind the packet
MalformedUnitStart(p) ==
    /\ get_pusi(p)
    /\ (At(p, 3) \div 16) % 4 \in {1, 2, 3}
    /\ PayloadOffset(p) <= PACKET_SIZE
    /\ \/ PACKET_SIZE - PayloadOffset(p) < 9
       \/ At(p, PayloadOffset(p)) # 0
       \/ PayloadOffset(p) + 9 + At(p, PayloadOffset(p) + 8) > PACKET_SIZE

\* C20: a Stream Handler writes nothing for a malformed unit-start packet
\* and the run ends in Fatal.  A packet that got past the continuity check
\* fails in the PES stripper or on the slice of the packet, with the
\* expected counter already advanced; a packet with another counter fails
\* on the continuity check with the expected counter as it was.
C20_MalformedUnitStartWritesNothing ==
    [][(DeliveredTo("Program") /\ MalformedUnitStart(packet')) =>
          LET q == get_pid(packet')
              expected == programs[q].continuity_counter
          IN  /\ status' = "Fatal"
              /\ count' = count
              /\ programs'[q].writer.buf = programs[q].writer.buf
              /\ IF get_continuity_counter(packet') = expected
                   THEN /\ error' \in {"MalformedPes", "IndexOutOfRange"}
                        /\ programs'[q].continuity_counter
                             = (expected + 1) % 16
                   ELSE /\ error' = "ContinuityError"
                        /\ programs'[q].continuity_counter = expected
         ]_vars

\* a unit-start packet whose PES header length leads behind the packet
\* ended the run: the sink holds the earlier packet only and the expected
\* counter is 2
C20_Witness ==
    /\ status = "Fatal"
    /\ error = "IndexOutOfRange"
    /\ count = 3
    /\ get_pid(consumed[3]) = AudioPid
    /\ get_pid(packet) = AudioPid
    /\ MalformedUnitStart(packet)
    /\ At(packet, PayloadOffset(packet) + 8) = 200
    /\ programs[AudioPid].continuity_counter = 2
    /\ programs[AudioPid].writer.buf = PayloadSlice(consumed[3])

====
